---- MODULE Spec2Model ----
(***************************************************************************)
(* A model of src/server.js: the GET /api/media handler of the media       *)
(* gateway, with its helpers parseQuality, pickFormat and parseRangeHeader *)
(* and the per-request teardown closure cleanup().                         *)
(*                                                                         *)
(* Strings that the code parses (the Range header, the quality parameter)  *)
(* are sequences of one-character strings, so that parsing is computed.    *)
(* JavaScript null / undefined is 0 for a format or a length and the empty *)
(* sequence <<>> for an optional record or string.                         *)
(*                                                                         *)
(* Three libraries are called by the code and are not part of it; they are *)
(* modelled by their documented behaviour at the call sites:               *)
(*   ytdl-core  chooseFormat throws "No such format found" when nothing    *)
(*              matches; filterFormats(.., 'audioonly') keeps the formats  *)
(*              with audio and without video; info.formats is sorted best  *)
(*              first.                                                     *)
(*   express    res.json() sets headers, and setting a header after the    *)
(*              headers were sent throws ERR_HTTP_HEADERS_SENT.            *)
(*   node       'close' is emitted once on the request and once on the     *)
(*              response; an event emitted before a listener is attached   *)
(*              is not delivered to it.                                    *)
(***************************************************************************)
EXTENDS Integers, Sequences, FiniteSets, TLC

VARIABLES
    formats,          \* info.formats: the variants, best first (catalogue ids)
    query,            \* req.query
    rangeHeader,      \* req.headers.range (<<>> when absent)
    pc,               \* where the handler (or the function applied on its own) is
    formatSelection,  \* <<result of pickFormat>> (line 137), <<>> before the call
    totalLength,      \* formatSelection.format?.contentLength (0: undefined)
    range,            \* result of parseRangeHeader (<<>>: null)
    streamRange,      \* ytdlOptions.range handed to downloadFromInfo (<<>>: none)
    listeners,        \* req.on('close') / res.on('close') attached (168-169)
    activeStreams,    \* the registry of open upstream streams (line 156)
    ffmpegProcess,    \* the process handle (line 157), "null" or "proc"
    opened,           \* upstream streams opened by downloadFromInfo so far
    spawned,          \* number of spawn('ffmpeg') calls so far
    copied,           \* per stream piped into the process: chunks copied so far
    upstreamError,    \* the piped stream that emitted 'error', or "none"
    destroyCalls,     \* per stream: number of stream.destroy() calls by cleanup
    killCalls,        \* number of ffmpegProcess.kill('SIGKILL') calls
    teardownLog,      \* one entry per cleanup() call: who called, at which pc,
                      \* and what it did, in order (streams destroyed, "kill")
    reqClosed,        \* 'close' was emitted on req
    resClosed,        \* 'close' was emitted on res
    res               \* the response: status, headers, body

vars == <<formats, query, rangeHeader, pc, formatSelection, totalLength, range,
          streamRange, listeners, activeStreams, ffmpegProcess, opened, spawned,
          copied, upstreamError, destroyCalls, killCalls, teardownLog, reqClosed, resClosed, res>>

---------------------------------------------------------------------------
\* Bounds of the model.

\* Largest number of variants in info.formats.
MaxFormats == 3
\* Largest number of digits in a generated Range header number.
MaxDigits == 2
\* Number of chunks an upstream stream piped into the process carries.
MaxChunks == 2

---------------------------------------------------------------------------
\* Strings.

Digits == {"0", "1", "2", "3", "4", "5", "6", "7", "8", "9"}

DigitValue(c) ==
    CASE c = "0" -> 0 [] c = "1" -> 1 [] c = "2" -> 2 [] c = "3" -> 3
      [] c = "4" -> 4 [] c = "5" -> 5 [] c = "6" -> 6 [] c = "7" -> 7
      [] c = "8" -> 8 [] c = "9" -> 9

\* Number(s) for a string of decimal digits (the only strings the regular
\* expression of parseRangeHeader captures).  Number('') is 0.
RECURSIVE DecimalValue(_)
DecimalValue(s) ==
    IF s = <<>> THEN 0
    ELSE 10 * DecimalValue(SubSeq(s, 1, Len(s) - 1)) + DigitValue(s[Len(s)])

\* The /i flag: case-insensitive comparison of the letters of "bytes".
LowerCase(c) ==
    CASE c = "B" -> "b" [] c = "Y" -> "y" [] c = "T" -> "t"
      [] c = "E" -> "e" [] c = "S" -> "s" [] OTHER -> c

BytesEq == <<"b", "y", "t", "e", "s", "=">>

\* Length of the longest run of digits of s that starts at position i.
RECURSIVE DigitRun(_, _)
DigitRun(s, i) ==
    IF i <= Len(s) /\ s[i] \in Digits THEN 1 + DigitRun(s, i + 1) ELSE 0

\* /bytes=(\d+)-(\d*)/i matches s at position i.  \d+ is greedy and a digit is
\* never "-", so the match exists exactly when the longest digit run after
\* "bytes=" is non-empty and followed by "-".
RangeMatchesAt(s, i) ==
    /\ i + 5 <= Len(s)
    /\ \A k \in 1..6 : LowerCase(s[i + k - 1]) = BytesEq[k]
    /\ DigitRun(s, i + 6) >= 1
    /\ i + 6 + DigitRun(s, i + 6) <= Len(s)
    /\ s[i + 6 + DigitRun(s, i + 6)] = "-"

\* RegExp.exec: the leftmost match, as <<match[1], match[2]>>, or <<>> (null).
RangeRegexExec(s) ==
    LET at == {i \in 1..Len(s) : RangeMatchesAt(s, i)} IN
    IF at = {} THEN <<>>
    ELSE LET i  == CHOOSE j \in at : \A k \in at : j <= k
             n1 == DigitRun(s, i + 6)
             p2 == i + 6 + n1 + 1
             n2 == DigitRun(s, p2)
         IN  <<SubSeq(s, i + 6, i + 6 + n1 - 1), SubSeq(s, p2, p2 + n2 - 1)>>

---------------------------------------------------------------------------
\* parseRangeHeader (lines 86-94).  size is the contentLength of the chosen
\* format (0: undefined).  The result is <<>> for null, else <<window>>.
\* Number.isFinite holds of every digit string short enough not to overflow
\* to Infinity (fewer than 309 digits), which the bounds guarantee.

ParseRangeHeaderNoOrderCheck(hdr, size) ==
    IF hdr = <<>> \/ size = 0 THEN <<>>
    ELSE LET match == RangeRegexExec(hdr) IN
         IF match = <<>> THEN <<>>
         ELSE LET start == DecimalValue(match[1])
                  end   == IF match[2] # <<>> THEN DecimalValue(match[2])
                           ELSE size - 1
              IN  <<[start |-> start, end |-> end]>>

ParseRangeHeaderEndIsSize(hdr, size) ==
    IF hdr = <<>> \/ size = 0 THEN <<>>
    ELSE LET match == RangeRegexExec(hdr) IN
         IF match = <<>> THEN <<>>
         ELSE LET start == DecimalValue(match[1])
                  end   == IF match[2] # <<>> THEN DecimalValue(match[2])
                           ELSE size
              IN  IF start > end THEN <<>>
                  ELSE <<[start |-> start, end |-> end]>>

parseRangeHeader(hdr, size) ==
    IF hdr = <<>> \/ size = 0 THEN <<>>
    ELSE LET match == RangeRegexExec(hdr) IN
         IF match = <<>> THEN <<>>
         ELSE LET start == DecimalValue(match[1])
                  end   == IF match[2] # <<>> THEN DecimalValue(match[2])
                           ELSE size - 1
              IN  IF start > end THEN <<>>
                  ELSE <<[start |-> start, end |-> end]>>

---------------------------------------------------------------------------
\* The variants the extraction library can list for an item, best first
\* (ytdl-core sorts info.formats by quality).  contentLength 0 is an absent
\* contentLength.  info.formats is a subsequence of this catalogue, given as
\* the increasing sequence of its catalogue ids.

Catalogue ==
    <<[itag |-> 22,  hasVideo |-> TRUE,  hasAudio |-> TRUE,  contentLength |-> 0,
       container |-> "mp4"],
      [itag |-> 18,  hasVideo |-> TRUE,  hasAudio |-> TRUE,  contentLength |-> 10,
       container |-> "mp4"],
      [itag |-> 137, hasVideo |-> TRUE,  hasAudio |-> FALSE, contentLength |-> 10,
       container |-> "mp4"],
      [itag |-> 140, hasVideo |-> FALSE, hasAudio |-> TRUE,  contentLength |-> 10,
       container |-> "mp4"],
      [itag |-> 251, hasVideo |-> FALSE, hasAudio |-> TRUE,  contentLength |-> 0,
       container |-> "webm"]>>

FormatIds == 1..Len(Catalogue)

IsMuxed(f)     == Catalogue[f].hasVideo /\ Catalogue[f].hasAudio
IsVideoOnly(f) == Catalogue[f].hasVideo /\ ~Catalogue[f].hasAudio
IsAudioOnly(f) == Catalogue[f].hasAudio /\ ~Catalogue[f].hasVideo

\* The three filters of pickFormat: info.formats.filter(...) on lines 69, 79
\* and 80, and ytdl.filterFormats(info.formats, 'audioonly') on line 64, which
\* keeps the formats with audio and without video.
Keeps(kind, f) ==
    CASE kind = "muxed"     -> IsMuxed(f)
      [] kind = "videoonly" -> IsVideoOnly(f)
      [] kind = "audioonly" -> IsAudioOnly(f)

\* Array.prototype.filter: the elements that pass, in their order.
RECURSIVE FilterFormats(_, _)
FilterFormats(fmts, kind) ==
    IF fmts = <<>> THEN <<>>
    ELSE IF Keeps(kind, fmts[1])
         THEN <<fmts[1]>> \o FilterFormats(Tail(fmts), kind)
         ELSE FilterFormats(Tail(fmts), kind)

\* The quality parameter values of the model, as character strings.
QHighest == <<"h", "i", "g", "h", "e", "s", "t">>
QLowest  == <<"l", "o", "w", "e", "s", "t">>

\* Number.isFinite(Number(value)) for the strings of the model: a non-empty
\* string of decimal digits is a finite number, a string of letters is NaN.
IsNumeric(value) == value # <<>> /\ \A k \in 1..Len(value) : value[k] \in Digits

\* parseQuality (lines 39-45).
parseQuality(value) ==
    IF value = <<>> THEN [kind |-> "highest", itag |-> 0]
    ELSE IF value = QHighest THEN [kind |-> "highest", itag |-> 0]
    ELSE IF value = QLowest THEN [kind |-> "lowest", itag |-> 0]
    ELSE IF IsNumeric(value) THEN [kind |-> "itag", itag |-> DecimalValue(value)]
    ELSE [kind |-> "highest", itag |-> 0]

\* ytdl.chooseFormat(formats, {quality}) as called on lines 65, 71, 81, 82:
\* 'highest' is formats[0], 'lowest' the last one, an itag the first format
\* with that itag; when there is none it throws, which is result 0 here.
NoSuchFormat == 0

chooseFormat(fmts, qualityPref) ==
    CASE qualityPref.kind = "highest" ->
            IF fmts = <<>> THEN NoSuchFormat ELSE fmts[1]
      [] qualityPref.kind = "lowest" ->
            IF fmts = <<>> THEN NoSuchFormat ELSE fmts[Len(fmts)]
      [] OTHER ->
            LET hits == {k \in 1..Len(fmts) : Catalogue[fmts[k]].itag = qualityPref.itag}
            IN  IF hits = {} THEN NoSuchFormat
                ELSE fmts[CHOOSE k \in hits : \A j \in hits : k <= j]

\* What pickFormat hands back: threw is TRUE when chooseFormat threw inside it
\* (the exception leaves pickFormat); format / audioFormat / videoFormat are
\* catalogue ids, 0 for null or undefined.
Selection(threw, format, audioFormat, videoFormat, isMuxed) ==
    [threw |-> threw, format |-> format, audioFormat |-> audioFormat,
     videoFormat |-> videoFormat, isMuxed |-> isMuxed]

Thrown == Selection(TRUE, 0, 0, 0, FALSE)

\* Lines 63-67: the audio branch of pickFormat.
PickAudio(fmts, qualityPref) ==
    LET format == chooseFormat(FilterFormats(fmts, "audioonly"), qualityPref) IN
    IF format = NoSuchFormat THEN Thrown
    ELSE Selection(FALSE, format, 0, 0, FALSE)

\* Lines 69-73: an already muxed variant.
PickMuxed(fmts, qualityPref) ==
    LET format == chooseFormat(FilterFormats(fmts, "muxed"), qualityPref) IN
    IF format = NoSuchFormat THEN Thrown
    ELSE Selection(FALSE, format, 0, 0, TRUE)

\* Lines 79-83: the (videoOnly, audioOnly) pair.
PickPair(fmts, qualityPref) ==
    LET videoFormat == chooseFormat(FilterFormats(fmts, "videoonly"), qualityPref)
        audioFormat == chooseFormat(FilterFormats(fmts, "audioonly"),
                                    [kind |-> "highest", itag |-> 0])
    IN  IF videoFormat = NoSuchFormat \/ audioFormat = NoSuchFormat THEN Thrown
        ELSE Selection(FALSE, 0, audioFormat, videoFormat, FALSE)

\* pickFormat with the pair tried before the muxed variants when ffmpeg is on.
PickFormatPairFirst(fmts, type, quality, enableFfmpeg) ==
    LET qualityPref == parseQuality(quality) IN
    IF type = "audio" THEN PickAudio(fmts, qualityPref)
    ELSE IF enableFfmpeg /\ FilterFormats(fmts, "videoonly") # <<>>
                         /\ FilterFormats(fmts, "audioonly") # <<>>
         THEN PickPair(fmts, qualityPref)
    ELSE IF FilterFormats(fmts, "muxed") # <<>> THEN PickMuxed(fmts, qualityPref)
    ELSE IF ~enableFfmpeg THEN Selection(FALSE, 0, 0, 0, FALSE)
    ELSE PickPair(fmts, qualityPref)

\* pickFormat without the early return of lines 75-77.
PickFormatNoFfmpegGuard(fmts, type, quality, enableFfmpeg) ==
    LET qualityPref == parseQuality(quality) IN
    IF type = "audio" THEN PickAudio(fmts, qualityPref)
    ELSE IF FilterFormats(fmts, "muxed") # <<>> THEN PickMuxed(fmts, qualityPref)
    ELSE PickPair(fmts, qualityPref)

\* pickFormat (lines 61-84).
pickFormat(fmts, type, quality, enableFfmpeg) ==
    LET qualityPref == parseQuality(quality) IN
    IF type = "audio" THEN PickAudio(fmts, qualityPref)
    ELSE IF FilterFormats(fmts, "muxed") # <<>> THEN PickMuxed(fmts, qualityPref)
    ELSE IF ~enableFfmpeg THEN Selection(FALSE, 0, 0, 0, FALSE)
    ELSE PickPair(fmts, qualityPref)

---------------------------------------------------------------------------
\* The request: what the handler reads from req.query and req.headers.

StreamIds == {"audioStream", "mediaStream", "videoStream"}

\* A header "bytes=<start>-<end>" from the digits of start and end.
RangeHdr(startDigits, endDigits) ==
    BytesEq \o startDigits \o <<"-">> \o endDigits

\* Range headers of the requests of the handler specification: absent, inside
\* the length, open ended, reaching past the length of every variant.
HandlerRangeHeaders ==
    {<<>>, RangeHdr(<<"0">>, <<"4">>), RangeHdr(<<"3">>, <<>>),
     RangeHdr(<<"2">>, <<"2", "0">>)}

\* quality: 'highest', 'lowest', two exact itags, an unparsable value.
QualityValues ==
    {QHighest, QLowest, <<"1", "8">>, <<"1", "4", "0">>, <<"a", "b", "c">>}

\* File names are the sequences of their dot-separated parts.
Filenames == {<<>>, <<"song", "mp3">>}

\* (mode, downloadTarget) pairs: streaming to the response, saving to disk.
Targets ==
    {[mode |-> "stream", downloadTarget |-> "response"],
     [mode |-> "download", downloadTarget |-> "disk"]}

Queries ==
    {[type |-> t, quality |-> q, enableFfmpeg |-> e, mode |-> m.mode,
      downloadTarget |-> m.downloadTarget, filename |-> f] :
        t \in {"audio", "video"}, q \in QualityValues, e \in {"true", "false"},
        m \in Targets, f \in Filenames}

\* info.formats: the subsequences of the catalogue with at most MaxFormats
\* variants, in catalogue (quality) order.
FormatLists ==
    {fs \in UNION {[1..n -> FormatIds] : n \in 0..MaxFormats} :
        \A i, j \in DOMAIN fs : i < j => fs[i] < fs[j]}

\* Lines 122-123 and 153.
isDownload  == query.mode = "download"
useFfmpeg   == query.enableFfmpeg \in {"true", "1"}
isDisk      == isDownload /\ query.downloadTarget = "disk"

\* String.prototype.endsWith('.' + ext) on a name given by its parts.
EndsWithExt(name, ext) == Len(name) >= 2 /\ name[Len(name)] = ext

\* Lines 134-135 and 147-151: the name of the file served.
ResponseFilename(sel) ==
    LET defaultName == IF query.filename # <<>> THEN query.filename
                       ELSE <<"title">>
        ext == IF sel.format # 0 THEN Catalogue[sel.format].container
               ELSE IF query.type = "audio" THEN "m4a" ELSE "mp4"
    IN  IF EndsWithExt(defaultName, ext) THEN defaultName
        ELSE Append(defaultName, ext)

\* Line 175.
wantMp3(sel) == useFfmpeg /\ EndsWithExt(ResponseFilename(sel), "mp3")

\* The response before the handler touches it.  contentLength and contentRange
\* are <<>> while the header is not set; sentStatus is the status line that
\* went out with the headers (0 before they are sent); body is what was
\* written: "none", "media", "error" (JSON {error}) or "ok" (JSON {ok:true}).
FreshResponse ==
    [status |-> 200, headersSent |-> FALSE, sentStatus |-> 0,
     contentLength |-> <<>>, contentRange |-> <<>>, mediaHeaders |-> FALSE,
     body |-> "none", ended |-> FALSE]

\* res.status(st).json({error}) on a response whose headers are not sent.
JsonError(r, st) ==
    [r EXCEPT !.status = st, !.headersSent = TRUE, !.sentStatus = st,
              !.body = "error", !.ended = TRUE]

\* res.json({ok: true, ...}) on lines 201, 213, 252, 285.
JsonOk(r) ==
    [r EXCEPT !.headersSent = TRUE, !.sentStatus = r.status,
              !.body = "ok", !.ended = TRUE]

\* The statuses mapYtdlError (lines 96-104) maps an error to.
ErrorStatuses == {400, 403, 410, 500}

\* The state of a request that has not been handled yet.
Idle ==
    /\ formatSelection = <<>>
    /\ range = <<>>
    /\ streamRange = <<>>
    /\ listeners = FALSE
    /\ activeStreams = <<>>
    /\ ffmpegProcess = "null"
    /\ opened = {}
    /\ spawned = 0
    /\ copied = <<>>
    /\ upstreamError = "none"
    /\ destroyCalls = [s \in StreamIds |-> 0]
    /\ killCalls = 0
    /\ teardownLog = <<>>
    /\ reqClosed = FALSE
    /\ resClosed = FALSE
    /\ res = FreshResponse

Init ==
    /\ formats \in FormatLists
    /\ query \in Queries
    /\ rangeHeader \in HandlerRangeHeaders
    /\ totalLength = 0
    /\ pc = "start"
    /\ Idle

---------------------------------------------------------------------------
\* cleanup (lines 159-166), called by the 'close' listeners of req and res and
\* by the catch block.  by names the caller; the log entry records the call.

TimesRegistered(s) ==
    Cardinality({k \in DOMAIN activeStreams : activeStreams[k] = s})

\* What one cleanup() call does, in the order the code does it: destroy()
\* on every registered stream (line 160), then kill (lines 162-165).
DestroyEffects == activeStreams
KillEffect == IF ffmpegProcess # "null" THEN <<"kill">> ELSE <<>>

\* cleanup without "activeStreams = []" and "ffmpegProcess = null".
CleanupKeepsRegistry(by) ==
    /\ destroyCalls' = [s \in StreamIds |-> destroyCalls[s] + TimesRegistered(s)]
    /\ activeStreams' = activeStreams
    /\ killCalls' = IF ffmpegProcess # "null" THEN killCalls + 1 ELSE killCalls
    /\ ffmpegProcess' = ffmpegProcess
    /\ teardownLog' = Append(teardownLog, [by |-> by, at |-> pc,
                                           did |-> DestroyEffects \o KillEffect])

\* cleanup that drops the process handle without killing the process.
CleanupNoKill(by) ==
    /\ destroyCalls' = [s \in StreamIds |-> destroyCalls[s] + TimesRegistered(s)]
    /\ activeStreams' = <<>>
    /\ killCalls' = killCalls
    /\ ffmpegProcess' = "null"
    /\ teardownLog' = Append(teardownLog, [by |-> by, at |-> pc,
                                           did |-> DestroyEffects])

\* cleanup that kills the process before it destroys the streams.
CleanupKillFirst(by) ==
    /\ destroyCalls' = [s \in StreamIds |-> destroyCalls[s] + TimesRegistered(s)]
    /\ activeStreams' = <<>>
    /\ killCalls' = IF ffmpegProcess # "null" THEN killCalls + 1 ELSE killCalls
    /\ ffmpegProcess' = "null"
    /\ teardownLog' = Append(teardownLog, [by |-> by, at |-> pc,
                                           did |-> KillEffect \o DestroyEffects])

cleanup(by) ==
    /\ destroyCalls' = [s \in StreamIds |-> destroyCalls[s] + TimesRegistered(s)]
    /\ activeStreams' = <<>>
    /\ killCalls' = IF ffmpegProcess # "null" THEN killCalls + 1 ELSE killCalls
    /\ ffmpegProcess' = "null"
    /\ teardownLog' = Append(teardownLog, [by |-> by, at |-> pc,
                                           did |-> DestroyEffects \o KillEffect])

NoCleanup ==
    UNCHANGED <<destroyCalls, activeStreams, killCalls, ffmpegProcess, teardownLog>>

inputs == <<formats, query, rangeHeader>>
selectionVars == <<formatSelection, totalLength, range, streamRange, listeners>>
resourceVars == <<opened, spawned, copied, upstreamError>>

---------------------------------------------------------------------------
\* The handler of GET /api/media (lines 106-299), one action per stretch of
\* code that runs without suspending.

\* Lines 117-120: the url is missing or is no YouTube url.
RejectUrl ==
    /\ pc = "start"
    /\ res' = JsonError(res, 400)
    /\ pc' = "done"
    /\ NoCleanup
    /\ UNCHANGED <<inputs, selectionVars, resourceVars, reqClosed, resClosed>>

\* Lines 117-127: the url is valid; the handler awaits ytdl.getInfo(url).
CallGetInfo ==
    /\ pc = "start"
    /\ pc' = "getInfo"
    /\ NoCleanup
    /\ UNCHANGED <<inputs, selectionVars, resourceVars, reqClosed, resClosed, res>>

\* Lines 128-132: getInfo rejects; the mapped status is sent as JSON.
GetInfoFails ==
    /\ pc = "getInfo"
    /\ \E st \in ErrorStatuses : res' = JsonError(res, st)
    /\ pc' = "done"
    /\ NoCleanup
    /\ UNCHANGED <<inputs, selectionVars, resourceVars, reqClosed, resClosed>>

\* Line 137 when chooseFormat throws inside pickFormat: the call is outside
\* the try block, so the exception leaves the async handler as a rejected
\* promise; nothing is sent and nothing after line 137 runs.
SelectionThrows ==
    /\ pc = "getInfo"
    /\ LET sel == pickFormat(formats, query.type, query.quality, useFfmpeg) IN
       /\ sel.threw
       /\ formatSelection' = <<sel>>
    /\ pc' = "rejected"
    /\ NoCleanup
    /\ UNCHANGED <<inputs, totalLength, range, streamRange, listeners,
                   resourceVars, reqClosed, resClosed, res>>

\* Lines 137-143: no format and no video format: 409.
NoViableFormat ==
    /\ pc = "getInfo"
    /\ LET sel == pickFormat(formats, query.type, query.quality, useFfmpeg) IN
       /\ ~sel.threw
       /\ sel.format = 0 /\ sel.videoFormat = 0
       /\ formatSelection' = <<sel>>
    /\ res' = JsonError(res, 409)
    /\ pc' = "done"
    /\ NoCleanup
    /\ UNCHANGED <<inputs, totalLength, range, streamRange, listeners,
                   resourceVars, reqClosed, resClosed>>

\* Lines 145-169, common to the three branches below: the range is
\* negotiated against the chosen format's contentLength and cleanup is
\* attached to 'close' of req and res.
Negotiated(sel) ==
    /\ ~sel.threw
    /\ ~(sel.format = 0 /\ sel.videoFormat = 0)
    /\ formatSelection' = <<sel>>
    /\ totalLength' = IF sel.format # 0 THEN Catalogue[sel.format].contentLength
                      ELSE 0
    /\ range' = parseRangeHeader(rangeHeader, totalLength')
    /\ listeners' = TRUE

\* Where the handler first suspends: mkdir for the disk target (lines 197,
\* 209, 248, 281), the pipeline into res otherwise (204, 217, 256, 289).
FirstAwait == IF isDisk THEN "mkdir" ELSE "pipe_res"

\* Lines 172-218: the audio branch, up to its first await.  No Content-Length,
\* Content-Range or 206 is set here, and the range is not handed to ytdl.
ServeAudio ==
    /\ pc = "getInfo"
    /\ query.type = "audio"
    /\ LET sel == pickFormat(formats, query.type, query.quality, useFfmpeg) IN
       /\ Negotiated(sel)
       /\ spawned' = IF wantMp3(sel) THEN spawned + 1 ELSE spawned
       /\ ffmpegProcess' = IF wantMp3(sel) THEN "proc" ELSE ffmpegProcess
       /\ copied' = IF wantMp3(sel) THEN [s \in {"audioStream"} |-> 0] ELSE copied
    /\ res' = IF isDisk THEN res ELSE [res EXCEPT !.mediaHeaders = TRUE]
    /\ streamRange' = <<>>
    /\ opened' = opened \cup {"audioStream"}
    /\ activeStreams' = Append(activeStreams, "audioStream")
    /\ pc' = FirstAwait
    /\ UNCHANGED <<inputs, upstreamError, destroyCalls, killCalls, teardownLog,
                   reqClosed, resClosed>>

\* Lines 221-257: a single (muxed) format is served as it is.
ServeDirect ==
    /\ pc = "getInfo"
    /\ query.type # "audio"
    /\ LET sel == pickFormat(formats, query.type, query.quality, useFfmpeg) IN
       /\ Negotiated(sel)
       /\ sel.format # 0
    /\ streamRange' = range'
    /\ res' =
         IF isDisk THEN res
         ELSE IF range' # <<>>
              THEN [res EXCEPT !.mediaHeaders = TRUE, !.status = 206,
                        !.contentRange = <<[start |-> range'[1].start,
                                            end |-> range'[1].end,
                                            total |-> totalLength']>>,
                        !.contentLength = <<range'[1].end - range'[1].start + 1>>]
              ELSE IF totalLength' # 0
                   THEN [res EXCEPT !.mediaHeaders = TRUE,
                                    !.contentLength = <<totalLength'>>]
                   ELSE [res EXCEPT !.mediaHeaders = TRUE]
    /\ opened' = opened \cup {"mediaStream"}
    /\ activeStreams' = Append(activeStreams, "mediaStream")
    /\ pc' = FirstAwait
    /\ UNCHANGED <<inputs, spawned, copied, upstreamError, ffmpegProcess,
                   destroyCalls, killCalls, teardownLog, reqClosed, resClosed>>

\* Lines 260-293: no single format but a video format.  With ffmpeg enabled
\* and both formats present the two streams are opened, registered and piped
\* into the spawned process (lines 261-270, no await in between); otherwise
\* line 293 answers 500.
ServePair ==
    /\ pc = "getInfo"
    /\ query.type # "audio"
    /\ LET sel == pickFormat(formats, query.type, query.quality, useFfmpeg) IN
       /\ Negotiated(sel)
       /\ sel.format = 0
       /\ IF useFfmpeg /\ sel.videoFormat # 0 /\ sel.audioFormat # 0
          THEN /\ opened' = opened \cup {"videoStream", "audioStream"}
               /\ activeStreams' = activeStreams \o <<"videoStream", "audioStream">>
               /\ spawned' = spawned + 1
               /\ ffmpegProcess' = "proc"
               /\ copied' = [s \in {"videoStream", "audioStream"} |-> 0]
               /\ res' = IF isDisk THEN res ELSE [res EXCEPT !.mediaHeaders = TRUE]
               /\ pc' = FirstAwait
          ELSE /\ res' = JsonError(res, 500)
               /\ pc' = "done"
               /\ UNCHANGED <<opened, activeStreams, spawned, ffmpegProcess, copied>>
    /\ streamRange' = <<>>
    /\ UNCHANGED <<inputs, upstreamError, destroyCalls, killCalls, teardownLog,
                   reqClosed, resClosed>>

\* The program counters at which a delivery is in progress: the handler is
\* suspended in an await of the try block.
Delivering == {"mkdir", "pipe_file", "stat", "pipe_res"}

\* The output of the pipeline can still produce bytes: the upstream stream was
\* not destroyed (direct shape) or the process was not killed.
OutputReadable ==
    IF spawned > 0 THEN killCalls = 0
    ELSE \A s \in opened : destroyCalls[s] = 0

\* pipeline() can resolve: a direct upstream stream ends only if it was not
\* destroyed (a destroyed source rejects the pipeline with a premature close);
\* the stdout of the process ends normally or reaches end of file when the
\* process is killed.
OutputCanEnd ==
    IF spawned > 0 THEN TRUE
    ELSE \A s \in opened : destroyCalls[s] = 0

\* fs.promises.mkdir resolves (lines 197, 209, 248, 281).
MkdirDone ==
    /\ pc = "mkdir"
    /\ pc' = "pipe_file"
    /\ NoCleanup
    /\ UNCHANGED <<inputs, selectionVars, resourceVars, reqClosed, resClosed, res>>

\* pipeline(output, fs.createWriteStream(destPath)) resolves (199, 211, 250, 283).
FilePipelineDone ==
    /\ pc = "pipe_file"
    /\ OutputCanEnd
    /\ pc' = "stat"
    /\ NoCleanup
    /\ UNCHANGED <<inputs, selectionVars, resourceVars, reqClosed, resClosed, res>>

\* fs.promises.stat resolves and {ok: true, ...} is sent (200-202, 212-214,
\* 251-253, 284-286).
StatDone ==
    /\ pc = "stat"
    /\ res' = JsonOk(res)
    /\ pc' = "done"
    /\ NoCleanup
    /\ UNCHANGED <<inputs, selectionVars, resourceVars, reqClosed, resClosed>>

\* pipeline(output, res) writes its first chunk: the status line and the
\* headers go out with it.
ResponseWrite ==
    /\ pc = "pipe_res"
    /\ ~resClosed
    /\ ~res.headersSent
    /\ OutputReadable
    /\ res' = [res EXCEPT !.headersSent = TRUE, !.sentStatus = res.status,
                          !.body = "media"]
    /\ NoCleanup
    /\ UNCHANGED <<inputs, selectionVars, resourceVars, reqClosed, resClosed, pc>>

\* pipeline(output, res) resolves: the output is exhausted and res is ended
\* (lines 204-205, 217-218, 256-257, 289-290).
ResponsePipelineDone ==
    /\ pc = "pipe_res"
    /\ ~resClosed
    /\ OutputCanEnd
    /\ res' = [res EXCEPT !.headersSent = TRUE,
                          !.sentStatus = IF res.headersSent THEN res.sentStatus
                                         ELSE res.status,
                          !.body = "media", !.ended = TRUE]
    /\ pc' = "done"
    /\ NoCleanup
    /\ UNCHANGED <<inputs, selectionVars, resourceVars, reqClosed, resClosed>>

\* An await of the try block rejects and the catch block runs (lines 294-298).
\* res.status(..).json(..) throws when the headers were already sent, and
\* cleanup() on line 297 is then not reached; otherwise the JSON error is sent
\* and cleanup() runs.
AwaitRejects ==
    /\ pc \in Delivering
    /\ \E st \in ErrorStatuses :
         IF res.headersSent
         THEN /\ res' = [res EXCEPT !.status = st]
              /\ pc' = "rejected"
              /\ NoCleanup
         ELSE /\ res' = JsonError(res, st)
              /\ cleanup("catch")
              /\ pc' = "done"
    /\ UNCHANGED <<inputs, selectionVars, resourceVars, reqClosed, resClosed>>

\* An upstream stream piped into the process is moving data: it was wired
\* by .pipe() (lines 193, 269, 270), it was not destroyed, the process that
\* reads it was not killed, and it has chunks left.  Sequential variant
\* first: the audio input waits for the video input to finish.
CanCopySequential(s) ==
    /\ s \in DOMAIN copied
    /\ destroyCalls[s] = 0
    /\ killCalls = 0
    /\ copied[s] < MaxChunks
    /\ (s = "audioStream" /\ "videoStream" \in DOMAIN copied)
          => copied["videoStream"] = MaxChunks

CanCopy(s) ==
    /\ s \in DOMAIN copied
    /\ destroyCalls[s] = 0
    /\ killCalls = 0
    /\ copied[s] < MaxChunks

\* One chunk moves from an upstream stream into its input channel of the
\* process while the handler is suspended.
CopyChunk(s) ==
    /\ pc \in Delivering
    /\ upstreamError = "none"
    /\ CanCopy(s)
    /\ copied' = [copied EXCEPT ![s] = copied[s] + 1]
    /\ NoCleanup
    /\ UNCHANGED <<inputs, selectionVars, opened, spawned, upstreamError,
                   reqClosed, resClosed, res, pc>>

PipeChunk == \E s \in StreamIds : CopyChunk(s)

\* An upstream stream piped into the process emits 'error'.  The handler
\* attaches no 'error' listener to videoStream or audioStream, and .pipe()
\* attaches none to its source, so the event is an uncaught exception of the
\* server: the handler is not resumed, the catch block does not run, and
\* no listener of this request runs afterwards.
UpstreamFails ==
    /\ pc \in Delivering
    /\ upstreamError = "none"
    /\ \E s \in DOMAIN copied :
         /\ destroyCalls[s] = 0
         /\ upstreamError' = s
    /\ pc' = "crashed"
    /\ NoCleanup
    /\ UNCHANGED <<inputs, selectionVars, opened, spawned, copied,
                   reqClosed, resClosed, res>>

\* 'close' is emitted on req while the request is being handled or after:
\* line 168 runs cleanup if it is attached.
ReqClose ==
    /\ pc \notin {"start", "crashed"}
    /\ ~reqClosed
    /\ reqClosed' = TRUE
    /\ IF listeners THEN cleanup("req") ELSE NoCleanup
    /\ UNCHANGED <<inputs, selectionVars, resourceVars, resClosed, res, pc>>

\* 'close' is emitted on res (the client went away, or the response was
\* completed): line 169 runs cleanup if it is attached.
ResClose ==
    /\ pc \notin {"start", "crashed"}
    /\ ~resClosed
    /\ resClosed' = TRUE
    /\ IF listeners THEN cleanup("res") ELSE NoCleanup
    /\ UNCHANGED <<inputs, selectionVars, resourceVars, reqClosed, res, pc>>

Next ==
    \/ RejectUrl
    \/ CallGetInfo
    \/ GetInfoFails
    \/ SelectionThrows
    \/ NoViableFormat
    \/ ServeAudio
    \/ ServeDirect
    \/ ServePair
    \/ MkdirDone
    \/ FilePipelineDone
    \/ StatDone
    \/ ResponseWrite
    \/ ResponsePipelineDone
    \/ AwaitRejects
    \/ PipeChunk
    \/ UpstreamFails
    \/ ReqClose
    \/ ResClose

Spec == Init /\ [][Next]_vars

---------------------------------------------------------------------------
\* parseRangeHeader on its own: every generated header against every length.

\* The digits the generated numbers are written with.
HeaderDigits == {"0", "3", "7"}

DigitStrings == UNION {[1..n -> HeaderDigits] : n \in 0..MaxDigits}

\* What stands before, between and after the two numbers.
HeaderPrefixes ==
    {BytesEq, <<"B", "Y", "T", "E", "S", "=">>, <<"b", "i", "t", "s", "=">>, <<>>}
HeaderStarts == DigitStrings \cup {<<"a">>, <<"3", "a">>}
HeaderSeparators == {<<"-">>, <<",">>}
HeaderSuffixes == {<<>>, <<",", "7", "-", "9">>}

GeneratedHeaders ==
    {p \o a \o m \o b \o x :
        p \in HeaderPrefixes, a \in HeaderStarts, m \in HeaderSeparators,
        b \in DigitStrings, x \in HeaderSuffixes}
    \cup {<<>>, RangeHdr(<<"1", "0", "0">>, <<>>),
          RangeHdr(<<"0">>, <<"4", "9", "9">>)}

\* contentLength values: undefined (0) and known lengths.
RangeSizes == {0, 5, 40, 1000}

InitRange ==
    /\ rangeHeader \in GeneratedHeaders
    /\ totalLength \in RangeSizes
    /\ formats = <<>>
    /\ query \in {q \in Queries : q.type = "video" /\ q.quality = QHighest
                                  /\ q.enableFfmpeg = "false" /\ q.mode = "stream"
                                  /\ q.filename = <<>>}
    /\ pc = "negotiate"
    /\ Idle

\* Line 145: range = parseRangeHeader(req.headers.range, contentLength).
Negotiate ==
    /\ pc = "negotiate"
    /\ range' = parseRangeHeader(rangeHeader, totalLength)
    /\ pc' = "negotiated"
    /\ NoCleanup
    /\ UNCHANGED <<inputs, formatSelection, totalLength, streamRange, listeners,
                   resourceVars, reqClosed, resClosed, res>>

NextRange == Negotiate

SpecRange == InitRange /\ [][NextRange]_vars

---------------------------------------------------------------------------
\* pickFormat on its own: every variant list against every query.

InitSelect ==
    /\ formats \in FormatLists
    /\ query \in Queries
    /\ rangeHeader = <<>>
    /\ totalLength = 0
    /\ pc = "select"
    /\ Idle

\* Line 137: formatSelection = pickFormat(info, {type, quality, enableFfmpeg}).
Select ==
    /\ pc = "select"
    /\ formatSelection' = <<pickFormat(formats, query.type, query.quality, useFfmpeg)>>
    /\ pc' = "selected"
    /\ NoCleanup
    /\ UNCHANGED <<inputs, totalLength, range, streamRange, listeners,
                   resourceVars, reqClosed, resClosed, res>>

NextSelect == Select

SpecSelect == InitSelect /\ [][NextSelect]_vars

---------------------------------------------------------------------------
\* Properties of parseRangeHeader, checked under SpecRange.

\* The header reads "bytes=<digits>-<digits or nothing>" from its first
\* character on; what follows the second number is not looked at.
SingleRangeAtStart(h) == RangeMatchesAt(h, 1)

\* The numbers such a header gives, and the end it stands for when the total
\* length is size.
GivenStart(h) == DecimalValue(SubSeq(h, 7, 6 + DigitRun(h, 7)))
GivenEndDigits(h) ==
    LET p2 == 8 + DigitRun(h, 7) IN SubSeq(h, p2, p2 + DigitRun(h, p2) - 1)
EndOmitted(h) == GivenEndDigits(h) = <<>>
EffectiveEnd(h, size) ==
    IF EndOmitted(h) THEN size - 1 ELSE DecimalValue(GivenEndDigits(h))

\* The header is exactly "bytes=<start>-[<end>]": nothing follows the end.
ExactSingleRange(h) ==
    /\ SingleRangeAtStart(h)
    /\ 7 + DigitRun(h, 7) + Len(GivenEndDigits(h)) = Len(h)

\* No "bytes=" of the header is followed by a digit: the start is not a number.
NonNumericStart(h) ==
    /\ \E i \in 1..Len(h) : i + 5 <= Len(h)
          /\ \A k \in 1..6 : LowerCase(h[i + k - 1]) = BytesEq[k]
    /\ \A i \in 1..Len(h) :
          (i + 5 <= Len(h) /\ \A k \in 1..6 : LowerCase(h[i + k - 1]) = BytesEq[k])
             => DigitRun(h, i + 6) = 0

\* C7: parseRangeHeader returns null when the header is absent, when the total
\* length is unknown, when the start is greater than the end, and when the
\* start is not a number.
C7_NoWindow ==
    (/\ pc = "negotiated"
     /\ \/ rangeHeader = <<>>
        \/ totalLength = 0
        \/ /\ SingleRangeAtStart(rangeHeader)
           /\ GivenStart(rangeHeader) > EffectiveEnd(rangeHeader, totalLength)
        \/ NonNumericStart(rangeHeader))
    => range = <<>>

\* C7 witness: a header whose start is greater than its end, with a known
\* length, was negotiated and gave null.
C7_Witness ==
    /\ pc = "negotiated"
    /\ totalLength # 0
    /\ ExactSingleRange(rangeHeader)
    /\ ~EndOmitted(rangeHeader)
    /\ GivenStart(rangeHeader) > EffectiveEnd(rangeHeader, totalLength)
    /\ range = <<>>

\* C8 as stated: every header "bytes=<start>-[<end>]" with a known total length
\* gives the window from the given start to the given end, or to
\* totalLength - 1 when the end is omitted.
C8_AsStated ==
    (/\ pc = "negotiated"
     /\ totalLength # 0
     /\ ExactSingleRange(rangeHeader))
    => range = <<[start |-> GivenStart(rangeHeader),
                  end |-> EffectiveEnd(rangeHeader, totalLength)]>>

\* C8 amended: such a header gives that window when the start is not greater
\* than the end (the given end, or totalLength - 1 when it is omitted), and
\* null when it is greater.
C8_WindowWhenOrdered ==
    (/\ pc = "negotiated"
     /\ totalLength # 0
     /\ ExactSingleRange(rangeHeader))
    => IF GivenStart(rangeHeader) <= EffectiveEnd(rangeHeader, totalLength)
       THEN range = <<[start |-> GivenStart(rangeHeader),
                       end |-> EffectiveEnd(rangeHeader, totalLength)]>>
       ELSE range = <<>>

\* C8 witness: ('bytes=100-', 1000) was negotiated and gave {100, 999}.
C8_Witness ==
    /\ pc = "negotiated"
    /\ rangeHeader = RangeHdr(<<"1", "0", "0">>, <<>>)
    /\ totalLength = 1000
    /\ range = <<[start |-> 100, end |-> 999]>>

\* C9: every window returned for a known total length has start <= end and
\* both inside [0, totalLength - 1].
C9_WindowInsideLength ==
    (pc = "negotiated" /\ range # <<>>)
    => /\ range[1].start <= range[1].end
       /\ 0 <= range[1].start
       /\ range[1].end <= totalLength - 1

---------------------------------------------------------------------------
\* Properties of the teardown, checked under Spec.

\* cleanup() has reached every stream opened and the process spawned.
StreamsDestroyed == \A s \in opened : destroyCalls[s] >= 1
ProcessKilled == spawned > 0 => killCalls >= 1

\* The request is the video+audio mux shape: both streams feed one process.
MuxShape == spawned > 0 /\ {"videoStream", "audioStream"} \subseteq opened

\* C1: over any sequence of teardown triggers every registered stream is
\* destroyed at most once and the process is killed at most once; once
\* cleanup() has run the registry is empty and the handle is null, so that a
\* further cleanup() destroys and kills nothing.
C1_TeardownAtMostOnce ==
    /\ \A s \in StreamIds : destroyCalls[s] <= 1
    /\ killCalls <= 1
    /\ teardownLog # <<>> => (activeStreams = <<>> /\ ffmpegProcess = "null")

\* C1 witness: cleanup() ran three times (close of req, close of res, catch)
\* for a request with two streams and a process.
C1_Witness ==
    /\ Len(teardownLog) = 3
    /\ MuxShape
    /\ destroyCalls["videoStream"] = 1 /\ destroyCalls["audioStream"] = 1
    /\ killCalls = 1

\* C2: when the request is over (the handler has returned or its promise has
\* rejected, and 'close' was emitted on req and on res, so that no trigger is
\* left), every stream opened was destroyed and the process spawned was killed.
C2_AllTornDown ==
    (pc \in {"done", "rejected"} /\ reqClosed /\ resClosed)
    => (StreamsDestroyed /\ ProcessKilled)

\* C3: a cleanup() called by a 'close' listener while a video+audio mux
\* delivery is in progress leaves the process killed, the handle null and both
\* streams destroyed.
C3_DisconnectKillsMux ==
    (/\ MuxShape
     /\ \E k \in DOMAIN teardownLog :
           teardownLog[k].by \in {"req", "res"} /\ teardownLog[k].at \in Delivering)
    => /\ killCalls >= 1
       /\ ffmpegProcess = "null"
       /\ destroyCalls["videoStream"] >= 1 /\ destroyCalls["audioStream"] >= 1
       /\ activeStreams = <<>>

\* C3 witness: the first teardown of a mux delivery into the response came
\* from 'close' of res while the pipeline was running, and killed the process.
C3_Witness ==
    /\ MuxShape
    /\ Len(teardownLog) = 1
    /\ teardownLog[1].by = "res" /\ teardownLog[1].at = "pipe_res"
    /\ killCalls = 1 /\ ffmpegProcess = "null"

---------------------------------------------------------------------------
\* Properties of the selection inside the handler, checked under Spec.

HasMuxed     == FilterFormats(formats, "muxed") # <<>>
HasVideoOnly == FilterFormats(formats, "videoonly") # <<>>
HasAudioOnly == FilterFormats(formats, "audioonly") # <<>>

\* C4: with a muxed variant in the set, a selection for a type other than
\* 'audio' never has the (videoFormat, audioFormat) pair shape and the handler
\* never spawns the process, whatever the quality and the ffmpeg flag.
C4_MuxedNeverPair ==
    (query.type # "audio" /\ HasMuxed)
    => /\ formatSelection # <<>> =>
            (formatSelection[1].videoFormat = 0 /\ formatSelection[1].audioFormat = 0)
       /\ spawned = 0
       /\ ffmpegProcess = "null"

\* C4 witness: ffmpeg is enabled and the set has a muxed, a video-only and an
\* audio-only variant; the muxed one was selected and is being piped.
C4_Witness ==
    /\ query.type = "video" /\ useFfmpeg
    /\ HasMuxed /\ HasVideoOnly /\ HasAudioOnly
    /\ formatSelection # <<>> /\ formatSelection[1].isMuxed
    /\ formatSelection[1].format # 0
    /\ pc = "pipe_res"

\* C6: a video request against a set with video-only and audio-only variants
\* and no muxed one, with ffmpeg disabled, is answered 409 with a JSON error
\* as soon as the selection is made: no stream was opened, no process spawned
\* and no media header or byte written.
C6_SplitOnlyIs409 ==
    (/\ query.type = "video" /\ ~useFfmpeg
     /\ ~HasMuxed /\ HasVideoOnly /\ HasAudioOnly
     /\ formatSelection # <<>>)
    => /\ pc = "done"
       /\ res.status = 409 /\ res.sentStatus = 409 /\ res.body = "error"
       /\ opened = {} /\ spawned = 0
       /\ ~res.mediaHeaders
       /\ ~listeners

\* C6 witness: such a request was answered 409.
C6_Witness ==
    /\ query.type = "video" /\ ~useFfmpeg /\ query.quality = QHighest
    /\ ~HasMuxed /\ HasVideoOnly /\ HasAudioOnly
    /\ formatSelection # <<>>
    /\ res.sentStatus = 409

\* C10: whenever output is piped into the response: 206 with Content-Range and
\* Content-Length = end - start + 1 if a window was negotiated; else 200 with
\* Content-Length = total if the total length is known; else (unknown total,
\* re-encoded or muxed output) 200 without Content-Length.
C10_ResponseHeaders ==
    pc = "pipe_res" =>
        IF range # <<>> /\ spawned = 0
        THEN /\ res.status = 206
             /\ res.contentRange = <<[start |-> range[1].start, end |-> range[1].end,
                                      total |-> totalLength]>>
             /\ res.contentLength = <<range[1].end - range[1].start + 1>>
        ELSE IF totalLength # 0 /\ spawned = 0
             THEN res.status = 200 /\ res.contentLength = <<totalLength>>
             ELSE res.status = 200 /\ res.contentLength = <<>>

---------------------------------------------------------------------------
\* Properties of pickFormat, checked under SpecSelect.

\* The candidates chooseFormat is given the requested quality for: the
\* audio-only variants for 'audio', else the muxed variants, or the video-only
\* ones when there is no muxed variant.
Candidates ==
    IF query.type = "audio" THEN FilterFormats(formats, "audioonly")
    ELSE IF HasMuxed THEN FilterFormats(formats, "muxed")
    ELSE FilterFormats(formats, "videoonly")

\* The quality is an exact identifier that no candidate has, or is neither
\* 'highest', 'lowest' nor a number.
UnknownQuality ==
    LET q == parseQuality(query.quality) IN
    \/ q.kind = "itag" /\ \A k \in DOMAIN Candidates : Catalogue[Candidates[k]].itag # q.itag
    \/ query.quality \notin {QHighest, QLowest} /\ ~IsNumeric(query.quality)

\* C5: with candidates to choose from, a quality that is an exact identifier
\* of no candidate, or is unparsable, selects what 'highest' selects and
\* raises no error.
C5_UnknownIsHighest ==
    (pc = "selected" /\ Candidates # <<>> /\ UnknownQuality)
    => /\ ~formatSelection[1].threw
       /\ formatSelection[1] = pickFormat(formats, query.type, QHighest, useFfmpeg)

----------------------------------------------------------------------------
\* Properties of the error path, checked under Spec.

\* cleanup() was called from the catch block (line 297).
CatchTornDown == \E k \in DOMAIN teardownLog : teardownLog[k].by = "catch"

\* A delivery into the response stopped after media bytes were written and
\* before the response was ended, and the handler is no longer waiting.
FailedMidStream ==
    /\ res.headersSent /\ res.body = "media" /\ ~res.ended
    /\ pc \notin Delivering
    /\ upstreamError = "none"

\* C11: when a delivery into the response fails after the headers were
\* committed, the handler sets no status and sends no JSON on that response,
\* its error handling raises nothing (the handler returns), and cleanup() runs
\* from the error path.
C11_MidStreamFailure ==
    FailedMidStream
    => /\ pc = "done"
       /\ res.status = res.sentStatus
       /\ CatchTornDown

\* C12: once an upstream stream piped into the process has failed, the process
\* is killed, every other upstream stream is destroyed, and the failure was
\* handled by the catch block of the handler, which returned.
C12_UpstreamFailureHandled ==
    (upstreamError # "none" /\ spawned > 0)
    => /\ killCalls >= 1
       /\ \A s \in opened \ {upstreamError} : destroyCalls[s] >= 1
       /\ CatchTornDown
       /\ pc = "done"

\* The handler stopped on the disk path without having reached the stat of
\* the file: the transfer failed.
DiskTransferFailed ==
    /\ isDisk
    /\ opened # {}
    /\ pc \in {"done", "rejected", "crashed"}
    /\ res.body # "ok"

\* cleanup() ran while the file was still being written.
TornDownWhileWriting ==
    \E k \in DOMAIN teardownLog : teardownLog[k].at \in {"mkdir", "pipe_file"}

\* C13: on the disk path no media header, status or byte is written to the
\* response; the success JSON is sent only by a handler that has finished the
\* copy and the stat, for an output that was not cut short by a teardown; and
\* a transfer that failed is answered with a JSON error.
C13_DiskOutcome ==
    isDisk
    => /\ ~res.mediaHeaders /\ res.body # "media"
       /\ res.contentLength = <<>> /\ res.contentRange = <<>>
       /\ res.body = "ok" => (pc = "done" /\ ~TornDownWhileWriting)
       /\ DiskTransferFailed => (res.body = "error" /\ res.headersSent)

----------------------------------------------------------------------------
\* Properties of the audio selection, checked under SpecSelect.

\* The variants that carry audio, in their order, and whether there is one.
WithAudio == SelectSeq(formats, LAMBDA f : Catalogue[f].hasAudio)
HasAudioAny == WithAudio # <<>>

\* The candidates of an audio request: the audio-only variants, or every
\* variant with audio when there is no audio-only one.
AudioCandidates ==
    IF HasAudioOnly THEN FilterFormats(formats, "audioonly") ELSE WithAudio

\* The requested quality is 'highest', 'lowest' or the identifier of one of
\* the audio candidates.
AudioQualityKnown ==
    \/ query.quality \in {QHighest, QLowest}
    \/ /\ IsNumeric(query.quality)
       /\ \E k \in DOMAIN AudioCandidates :
             Catalogue[AudioCandidates[k]].itag = parseQuality(query.quality).itag

\* C14: an audio selection over a set with some variant that carries audio
\* does not fail: it returns the audio-only variant the quality rule picks,
\* or, when no variant is audio-only, the one the quality rule picks among
\* all the variants that carry audio.
C14_AudioFallback ==
    (pc = "selected" /\ query.type = "audio" /\ HasAudioAny /\ AudioQualityKnown)
    => /\ ~formatSelection[1].threw
       /\ formatSelection[1].format
             = chooseFormat(AudioCandidates, parseQuality(query.quality))

----------------------------------------------------------------------------
\* Properties of the handler around the selection, checked under Spec.

\* C15: no selection over an empty candidate list throws.  A video request
\* with ffmpeg enabled, no muxed variant and no video-only or no audio-only
\* variant is answered 409 with a JSON error, and an audio request over a set
\* without any audio variant is answered with a JSON error.
C15_EmptyCandidatesAnswered ==
    formatSelection # <<>>
    => /\ (/\ query.type = "video" /\ useFfmpeg /\ ~HasMuxed
           /\ (~HasVideoOnly \/ ~HasAudioOnly))
          => /\ ~formatSelection[1].threw
             /\ pc = "done"
             /\ res.sentStatus = 409 /\ res.body = "error"
       /\ (query.type = "audio" /\ ~HasAudioAny)
          => /\ ~formatSelection[1].threw
             /\ pc = "done"
             /\ res.body = "error"

\* C16: for the disk target the upstream stream is opened without a byte
\* window, whatever the Range header of the request.
C16_DiskUnbounded == isDisk => streamRange = <<>>

\* C19: an audio request with ffmpeg enabled and an mp3 file name, whose
\* selected variant is not in an mp3 container, is delivered in the re-encode
\* shape: one upstream audio stream piped into exactly one process.
C19_ReencodeShape ==
    (/\ query.type = "audio" /\ useFfmpeg
     /\ EndsWithExt(query.filename, "mp3")
     /\ pc \in Delivering
     /\ Catalogue[formatSelection[1].format].container # "mp3")
    => /\ opened = {"audioStream"}
       /\ spawned = 1
       /\ DOMAIN copied = {"audioStream"}

----------------------------------------------------------------------------
\* Properties of the teardown order and of the two copies, checked under Spec.

\* C17: a cleanup() call destroys every registered stream before it kills the
\* process, and the process is never killed while a stream opened for the
\* request has not been destroyed.
C17_StreamsBeforeProcess ==
    /\ \A k \in DOMAIN teardownLog :
          \A i, j \in DOMAIN teardownLog[k].did :
              (teardownLog[k].did[i] = "kill" /\ teardownLog[k].did[j] # "kill")
              => j < i
    /\ killCalls >= 1 => \A s \in opened : destroyCalls[s] >= 1

\* C17 witness: one cleanup() destroyed the two streams of a mux delivery and
\* then killed the process.
C17_Witness ==
    /\ MuxShape
    /\ Len(teardownLog) >= 1
    /\ teardownLog[1].did = <<"videoStream", "audioStream", "kill">>
    /\ killCalls = 1

\* C18: in the mux shape both upstream streams are registered and piped into
\* the process by the time the handler first suspends, and while nothing was
\* torn down each of the two copies can move its next chunk whatever the
\* progress of the other.
C18_CopiesConcurrent ==
    MuxShape
    => /\ DOMAIN copied = {"videoStream", "audioStream"}
       /\ teardownLog = <<>> => activeStreams = <<"videoStream", "audioStream">>
       /\ (/\ pc \in Delivering /\ upstreamError = "none" /\ killCalls = 0
           /\ \A s \in StreamIds : destroyCalls[s] = 0)
          => \A s \in {"videoStream", "audioStream"} :
                copied[s] < MaxChunks => ENABLED CopyChunk(s)

\* C18 witness: both copies are in progress, neither has finished.
C18_Witness ==
    /\ MuxShape
    /\ pc \in Delivering
    /\ copied["videoStream"] = 1 /\ copied["audioStream"] = 1
    /\ 1 < MaxChunks

\* Both 'close' events were emitted before lines 168-169 attached the
\* listeners: they are attached now and neither of them has run cleanup().
DisconnectBeforeListeners ==
    /\ listeners /\ reqClosed /\ resClosed
    /\ \A k \in DOMAIN teardownLog : teardownLog[k].by = "catch"

\* C20: when the client went away while the metadata was being fetched, every
\* stream the handler opened afterwards is destroyed and the process it
\* spawned is killed by the time the handler is over.
C20_EarlyDisconnectNoLeak ==
    (DisconnectBeforeListeners /\ opened # {} /\ pc \in {"done", "rejected"})
    => /\ StreamsDestroyed
       /\ ProcessKilled
       /\ CatchTornDown

====
